---- MODULE Spec2Model ----
(***************************************************************************)
(* Model of drivers/stepper/stepper_shell.c (Zephyr stepper shell), built  *)
(* with CONFIG_STEPPER_SHELL_ASYNC enabled.                                *)
(*                                                                         *)
(* Two execution contexts share stepper_signal and poll_thread_started:    *)
(* the shell thread, which runs one command handler at a time, and the     *)
(* poll thread created by start_polling().  The stepper driver is the      *)
(* environment: it answers capability calls with a return code and raises  *)
(* the k_poll_signal it was handed.                                        *)
(***************************************************************************)
EXTENDS Integers, Sequences, FiniteSets, TLC

(* ------------------------------ bounds -------------------------------- *)
\* every token of at most this many characters is tried as a numeric argument
MaxLen == 1
\* accepted asynchronous motions whose completion is still outstanding
MaxPending == 2
\* completions the driver raises in one run
MaxRaises == 2

(* ----------------------------- constants ------------------------------ *)
arg_idx_dev == 1
arg_idx_param == 2
arg_idx_value == 3

ENOEXEC == 8
ENODEV == 19
EINVAL == 22
EIO == 5

STEPPER_SIGNAL_STEPS_COMPLETED == 0
\* a signal result other than STEPPER_SIGNAL_STEPS_COMPLETED
STEPPER_SIGNAL_OTHER == 1

\* long is 32 bits wide on the targets this shell is built for
LONG_MAX == 2147483647
LONG_MIN == (-2147483647) - 1

(* ------------------------------ inputs -------------------------------- *)
\* characters of a numeric token: sign, digits, and a letter
Chars == {"-", "0", "1", "x"}

RECURSIVE SeqsUpTo(_)
SeqsUpTo(n) ==
    IF n = 0 THEN {<<>>}
    ELSE LET shorter == SeqsUpTo(n - 1)
         IN  shorter \cup {Append(s, c) : s \in {t \in shorter : Len(t) = n - 1}, c \in Chars}

\* longer tokens tried besides: a negative number, a hexadecimal and an
\* octal number, digits followed by a letter
LongTokens == {<<"-", "1">>, <<"0", "x", "1">>, <<"0", "1", "1">>, <<"1", "x">>}

\* the numeric tokens tried: every non-empty token of at most MaxLen
\* characters, and the longer ones
Tokens == (SeqsUpTo(MaxLen) \ {<<>>}) \cup LongTokens

\* the one numeric token typed where the argument is not what is looked at
PlainTokens == {<<"1">>}

On == <<"o", "n">>
Off == <<"o", "f", "f">>
\* tokens tried as the second argument of enable
EnableTokens == {On, Off, <<"o">>, <<"O", "N">>, <<"1">>}
\* tokens tried as the direction argument
DirTokens == {<<"0">>, <<"1">>, <<"x">>}
PlainDirTokens == {<<"1">>}

\* device names the operator may type; only motorA is registered
DevNames == {"motorA", "ghost"}
Registered == {"motorA"}
NoDevice == "NULL"

\* return codes of a capability call
DriverRets == {0, -EIO}
\* values the three queries of info hand back
PosVals == {0, 7}
ResVals == {1, 2}

(* ------------------------ libc numeric parsing ------------------------ *)
\* value of a character as a digit; characters that are no digit in any
\* base up to 16 get a value above every base
DigitVal(c) ==
    CASE c = "0" -> 0
      [] c = "1" -> 1
      [] c = "x" -> 33
      [] OTHER   -> 99

Skip(s, n) == SubSeq(s, n + 1, Len(s))

\* number of leading characters of s that are digits of the base
RECURSIVE DigitRun(_, _)
DigitRun(s, base) ==
    IF s = <<>> \/ DigitVal(Head(s)) >= base THEN 0
    ELSE 1 + DigitRun(Tail(s), base)

\* the first n digits of s exceed lim when read in the base
RECURSIVE Overflows(_, _, _, _, _)
Overflows(s, n, base, acc, lim) ==
    IF n = 0 THEN FALSE
    ELSE LET d == DigitVal(Head(s))
         IN  IF acc > (lim - d) \div base
             THEN TRUE
             ELSE Overflows(Tail(s), n - 1, base, acc * base + d, lim)

\* magnitude of the first n digits of s, saturating at lim
RECURSIVE Magnitude(_, _, _, _, _)
Magnitude(s, n, base, acc, lim) ==
    IF n = 0 THEN acc
    ELSE LET d == DigitVal(Head(s))
         IN  IF acc > (lim - d) \div base
             THEN lim
             ELSE Magnitude(Tail(s), n - 1, base, acc * base + d, lim)

HasSign(s) == s # <<>> /\ Head(s) = "-"
Unsigned(s) == IF HasSign(s) THEN Tail(s) ELSE s

\* "0x" followed by a hexadecimal digit selects base 16 under base 0
HexPrefix(s) == Len(s) >= 3 /\ s[1] = "0" /\ s[2] = "x" /\ DigitVal(s[3]) < 16

\* base chosen by strtol(.., 0) for the unsigned part of the token
AutoBase(s) ==
    IF HexPrefix(s) THEN 16
    ELSE IF s # <<>> /\ Head(s) = "0" THEN 8
    ELSE 10

\* the digits strtol(.., 0) converts
AutoDigits(s) == IF HexPrefix(s) THEN Skip(s, 2) ELSE s

\* strtol(tok, NULL, 0): the end pointer is not asked for, so characters
\* after the digits are dropped and a token without digits yields 0
strtol(tok) ==
    LET u    == Unsigned(tok)
        base == AutoBase(u)
        ds   == AutoDigits(u)
        n    == DigitRun(ds, base)
    IN  IF HasSign(tok)
        THEN IF Overflows(ds, n, base, 0, LONG_MAX)
             THEN LONG_MIN
             ELSE - Magnitude(ds, n, base, 0, LONG_MAX)
        ELSE Magnitude(ds, n, base, 0, LONG_MAX)

\* a uint32_t as its two 16-bit halves
U32(hi, lo) == [hi |-> hi, lo |-> lo]

\* strtoul(tok, NULL, 0) stored in a uint32_t: a leading minus sign negates
\* the converted value modulo 2^32.  Tokens of the lengths explored convert
\* to less than 2^16, the low half
strtoul(tok) ==
    LET u    == Unsigned(tok)
        base == AutoBase(u)
        ds   == AutoDigits(u)
        n    == DigitRun(ds, base)
        m    == Magnitude(ds, n, base, 0, 65535)
    IN  IF HasSign(tok) /\ m # 0
        THEN U32(65535, 65536 - m)
        ELSE U32(0, m)

\* atoi(tok): base 10, no prefix
atoi(tok) ==
    LET u == Unsigned(tok)
        n == DigitRun(u, 10)
        m == Magnitude(u, n, 10, 0, LONG_MAX)
    IN  IF HasSign(tok) THEN - m ELSE m

(* ------------------------------- state -------------------------------- *)
VARIABLES
    poll_thread_started,  \* static bool poll_thread_started
    stepper_signal,       \* static struct k_poll_signal stepper_signal
    poll_thread,          \* number of threads created on struct k_thread poll_thread
    lpc,                  \* position of the poll thread in stepper_poll_thread
    pending,              \* motions the driver accepted with the signal and has not completed
    nRaise,               \* times the driver raised STEPPER_SIGNAL_STEPS_COMPLETED
    nHeard,               \* those of them raised while a poll thread existed
    nPrint,               \* times the poll thread printed "Stepper: All steps completed"
    periods,              \* times the signal went from not raised to raised under a poll thread
    last,                 \* the command the shell thread ran last, with what it did
    act                   \* the step taken last

vars == <<poll_thread_started, stepper_signal, poll_thread, lpc, pending,
          nRaise, nHeard, nPrint, periods, last, act>>

notifier == <<poll_thread_started, stepper_signal, poll_thread, lpc>>
history == <<nRaise, nHeard, nPrint, periods>>

(* ---------------------------- shell helpers --------------------------- *)
\* argv of a command with one argument after the device, indexed from 0
Argv2(name, dev) == 0 :> name @@ 1 :> dev
Argv3(name, dev, param) == 0 :> name @@ 1 :> dev @@ 2 :> param
Argv4(name, dev, param, value) == 0 :> name @@ 1 :> dev @@ 2 :> param @@ 3 :> value

shell_error(msg, arg) == [lvl |-> "error", msg |-> msg, arg |-> arg]
shell_warn(msg, arg) == [lvl |-> "warn", msg |-> msg, arg |-> arg]
shell_print(msg, arg) == [lvl |-> "print", msg |-> msg, arg |-> arg]

\* a capability call issued to the driver
Call(op, dev, args, signal) == [op |-> op, dev |-> dev, args |-> args, signal |-> signal]

\* device_get_binding(name)
device_get_binding(name) == IF name \in Registered THEN name ELSE NoDevice

\* start_polling() was not reached
NotPolled == [called |-> FALSE, ret |-> 0, init |-> FALSE, created |-> FALSE,
              started |-> FALSE, out |-> <<>>]

\* what a handler hands back: its return value, the capability calls it
\* issued, the lines it printed, and what start_polling() did
Result(ret, calls, out, sp) == [ret |-> ret, calls |-> calls, out |-> out, sp |-> sp]

\* if (err) { shell_error(sh, "Error: %d", err); }
ErrorLine(err) == IF err # 0 THEN <<shell_error("Error: %d", err)>> ELSE <<>>

\* parse_device_arg() without the test of the binding
parse_device_arg_unchecked(argv) ==
    [dev |-> device_get_binding(argv[arg_idx_dev]), ret |-> 0, out |-> <<>>]

parse_device_arg(argv) ==
    LET dev == device_get_binding(argv[arg_idx_dev])
    IN  IF dev = NoDevice
        THEN [dev |-> dev, ret |-> -ENODEV,
              out |-> <<shell_error("Stepper device %s not found", argv[arg_idx_dev])>>]
        ELSE [dev |-> dev, ret |-> 0, out |-> <<>>]

(* --------------------------- completion notifier ---------------------- *)
\* start_polling() without the test of poll_thread_started: every call
\* initialises the signal and creates a thread
start_polling_unguarded(started, tid_ok) ==
    IF ~tid_ok
    THEN [called |-> TRUE, ret |-> -ENOEXEC, init |-> TRUE, created |-> FALSE,
          started |-> started,
          out |-> <<shell_error("Cannot start poll thread", "")>>]
    ELSE [called |-> TRUE, ret |-> 0, init |-> TRUE, created |-> TRUE,
          started |-> TRUE, out |-> <<>>]

\* start_polling() with k_poll_signal_init() moved out of the test of
\* poll_thread_started: every call initialises the signal
start_polling_reinit(started, tid_ok) ==
    IF ~started
    THEN IF ~tid_ok
         THEN [called |-> TRUE, ret |-> -ENOEXEC, init |-> TRUE, created |-> FALSE,
               started |-> started,
               out |-> <<shell_error("Cannot start poll thread", "")>>]
         ELSE [called |-> TRUE, ret |-> 0, init |-> TRUE, created |-> TRUE,
               started |-> TRUE, out |-> <<>>]
    ELSE [called |-> TRUE, ret |-> 0, init |-> TRUE, created |-> FALSE,
          started |-> started, out |-> <<>>]

\* start_polling() without its k_poll_signal_init(): the thread is created
\* on a signal nobody initialised
start_polling_noinit(started, tid_ok) ==
    IF ~started
    THEN IF ~tid_ok
         THEN [called |-> TRUE, ret |-> -ENOEXEC, init |-> FALSE, created |-> FALSE,
               started |-> started,
               out |-> <<shell_error("Cannot start poll thread", "")>>]
         ELSE [called |-> TRUE, ret |-> 0, init |-> FALSE, created |-> TRUE,
               started |-> TRUE, out |-> <<>>]
    ELSE [called |-> TRUE, ret |-> 0, init |-> FALSE, created |-> FALSE,
          started |-> started, out |-> <<>>]

\* start_polling(): started is poll_thread_started on entry, tid_ok tells
\* whether k_thread_create() hands back a thread
start_polling(started, tid_ok) ==
    IF ~started
    THEN IF ~tid_ok
         THEN [called |-> TRUE, ret |-> -ENOEXEC, init |-> TRUE, created |-> FALSE,
               started |-> started,
               out |-> <<shell_error("Cannot start poll thread", "")>>]
         ELSE [called |-> TRUE, ret |-> 0, init |-> TRUE, created |-> TRUE,
               started |-> TRUE, out |-> <<>>]
    ELSE [called |-> TRUE, ret |-> 0, init |-> FALSE, created |-> FALSE,
          started |-> started, out |-> <<>>]

\* k_poll_signal_init(): clears the raised flag, leaves the result alone
k_poll_signal_init(sig) == [sig EXCEPT !.signaled = 0, !.inited = TRUE]

\* k_poll_signal_raise()
k_poll_signal_raise(sig, result) == [sig EXCEPT !.signaled = 1, !.result = result]

\* k_poll_signal_reset()
k_poll_signal_reset(sig) == [sig EXCEPT !.signaled = 0]

(* ------------------------------ handlers ------------------------------ *)
\* enable that takes every token other than "on" for "off"
cmd_stepper_enable_lenient(argv, drv) ==
    LET enable == (argv[arg_idx_param] = On)
        p      == parse_device_arg(argv)
    IN  IF p.ret < 0
        THEN Result(p.ret, <<>>, p.out, NotPolled)
        ELSE Result(drv, <<Call("stepper_enable", p.dev, <<enable>>, FALSE)>>,
                    ErrorLine(drv), NotPolled)

\* drv is the return code of the capability call, should it be reached
cmd_stepper_enable(argv, drv) ==
    IF argv[arg_idx_param] # On /\ argv[arg_idx_param] # Off
    THEN Result(-EINVAL, <<>>,
                <<shell_error("Invalid enable value: %s", argv[arg_idx_param])>>, NotPolled)
    ELSE LET enable == (argv[arg_idx_param] = On)
             p      == parse_device_arg(argv)
         IN  IF p.ret < 0
             THEN Result(p.ret, <<>>, p.out, NotPolled)
             ELSE Result(drv, <<Call("stepper_enable", p.dev, <<enable>>, FALSE)>>,
                         ErrorLine(drv), NotPolled)

\* move that gives up when start_polling() fails: it returns that error
\* without calling the driver
cmd_stepper_move_checked(argv, drv, started, tid_ok) ==
    LET micro_steps == strtol(argv[arg_idx_param])
        p           == parse_device_arg(argv)
    IN  IF p.ret < 0
        THEN Result(p.ret, <<>>, p.out, NotPolled)
        ELSE LET sp == start_polling(started, tid_ok)
             IN  IF sp.ret < 0
                 THEN Result(sp.ret, <<>>, sp.out, sp)
                 ELSE Result(drv, <<Call("stepper_move", p.dev, <<micro_steps>>, TRUE)>>,
                             sp.out \o ErrorLine(drv), sp)

cmd_stepper_move(argv, drv, started, tid_ok) ==
    LET micro_steps == strtol(argv[arg_idx_param])
        p           == parse_device_arg(argv)
    IN  IF p.ret < 0
        THEN Result(p.ret, <<>>, p.out, NotPolled)
        ELSE LET sp == start_polling(started, tid_ok)
             IN  Result(drv, <<Call("stepper_move", p.dev, <<micro_steps>>, TRUE)>>,
                        sp.out \o ErrorLine(drv), sp)

\* set_max_velocity that prints the driver's error and returns 0
cmd_stepper_set_max_velocity_swallow(argv, drv) ==
    LET velocity == strtoul(argv[arg_idx_param])
        p        == parse_device_arg(argv)
    IN  IF p.ret < 0
        THEN Result(p.ret, <<>>, p.out, NotPolled)
        ELSE Result(0, <<Call("stepper_set_max_velocity", p.dev, <<velocity>>, FALSE)>>,
                    ErrorLine(drv), NotPolled)

cmd_stepper_set_max_velocity(argv, drv) ==
    LET velocity == strtoul(argv[arg_idx_param])
        p        == parse_device_arg(argv)
    IN  IF p.ret < 0
        THEN Result(p.ret, <<>>, p.out, NotPolled)
        ELSE Result(drv, <<Call("stepper_set_max_velocity", p.dev, <<velocity>>, FALSE)>>,
                    ErrorLine(drv), NotPolled)

cmd_stepper_set_micro_step_res(argv, drv) ==
    LET resolution == atoi(argv[arg_idx_param])
        p          == parse_device_arg(argv)
    IN  IF p.ret < 0
        THEN Result(p.ret, <<>>, p.out, NotPolled)
        ELSE Result(drv, <<Call("stepper_set_micro_step_res", p.dev, <<resolution>>, FALSE)>>,
                    ErrorLine(drv), NotPolled)

\* set_actual_position written as an asynchronous command: it starts polling
\* and hands the signal to the driver
cmd_stepper_set_actual_position_async(argv, drv) ==
    LET position == strtol(argv[arg_idx_param])
        p        == parse_device_arg(argv)
    IN  IF p.ret < 0
        THEN Result(p.ret, <<>>, p.out, NotPolled)
        ELSE LET sp == start_polling(poll_thread_started, TRUE)
             IN  Result(drv, <<Call("stepper_set_actual_position", p.dev, <<position>>, TRUE)>>,
                        sp.out \o ErrorLine(drv), sp)

cmd_stepper_set_actual_position(argv, drv) ==
    LET position == strtol(argv[arg_idx_param])
        p        == parse_device_arg(argv)
    IN  IF p.ret < 0
        THEN Result(p.ret, <<>>, p.out, NotPolled)
        ELSE Result(drv, <<Call("stepper_set_actual_position", p.dev, <<position>>, FALSE)>>,
                    ErrorLine(drv), NotPolled)

\* set_target_position that starts polling before it looks the device up
cmd_stepper_set_target_position_early(argv, drv, started, tid_ok) ==
    LET position == strtol(argv[arg_idx_param])
        sp       == start_polling(started, tid_ok)
        p        == parse_device_arg(argv)
    IN  IF p.ret < 0
        THEN Result(p.ret, <<>>, sp.out \o p.out, sp)
        ELSE Result(drv, <<Call("stepper_set_target_position", p.dev, <<position>>, TRUE)>>,
                    sp.out \o ErrorLine(drv), sp)

cmd_stepper_set_target_position(argv, drv, started, tid_ok) ==
    LET position == strtol(argv[arg_idx_param])
        p        == parse_device_arg(argv)
    IN  IF p.ret < 0
        THEN Result(p.ret, <<>>, p.out, NotPolled)
        ELSE LET sp == start_polling(started, tid_ok)
             IN  Result(drv, <<Call("stepper_set_target_position", p.dev, <<position>>, TRUE)>>,
                        sp.out \o ErrorLine(drv), sp)

cmd_stepper_enable_constant_velocity_mode(argv, drv) ==
    LET direction == atoi(argv[arg_idx_param])
        velocity  == strtoul(argv[arg_idx_value])
        p         == parse_device_arg(argv)
    IN  IF p.ret < 0
        THEN Result(p.ret, <<>>, p.out, NotPolled)
        ELSE Result(drv, <<Call("stepper_enable_constant_velocity_mode", p.dev,
                                <<direction, velocity>>, FALSE)>>,
                    ErrorLine(drv), NotPolled)

\* what the driver answers to the three queries of info
QueryAnswers ==
    [pos_err : DriverRets, pos : PosVals,
     res_err : DriverRets, res : ResVals,
     mov_err : DriverRets, mov : BOOLEAN]

\* one query of info: a warning when it fails, its value otherwise
InfoLine(err, failed, label, value) ==
    IF err < 0 THEN shell_warn(failed, err) ELSE shell_print(label, value)

\* info that gives up at the first query that fails
cmd_stepper_info_failfast(argv, drv) ==
    LET p == parse_device_arg(argv)
    IN  IF p.ret < 0
        THEN Result(p.ret, <<>>, p.out, NotPolled)
        ELSE IF drv.pos_err < 0
        THEN Result(drv.pos_err,
                    << Call("stepper_get_actual_position", p.dev, <<>>, FALSE) >>,
                    << shell_print("Stepper Info:", ""),
                       shell_print("Device: %s", p.dev),
                       shell_warn("Failed to get actual position: %d", drv.pos_err) >>,
                    NotPolled)
        ELSE Result(0,
                    << Call("stepper_get_actual_position", p.dev, <<>>, FALSE),
                       Call("stepper_get_micro_step_res", p.dev, <<>>, FALSE),
                       Call("stepper_is_moving", p.dev, <<>>, FALSE) >>,
                    << shell_print("Stepper Info:", ""),
                       shell_print("Device: %s", p.dev),
                       shell_print("Actual Position: %d", drv.pos),
                       InfoLine(drv.res_err, "Failed to get micro-step resolution: %d",
                                "Micro-step Resolution: %d", drv.res),
                       InfoLine(drv.mov_err, "Failed to check if the motor is moving: %d",
                                "Is Moving: %s", IF drv.mov THEN "Yes" ELSE "No") >>,
                    NotPolled)

cmd_stepper_info(argv, drv) ==
    LET p == parse_device_arg(argv)
    IN  IF p.ret < 0
        THEN Result(p.ret, <<>>, p.out, NotPolled)
        ELSE Result(0,
                    << Call("stepper_get_actual_position", p.dev, <<>>, FALSE),
                       Call("stepper_get_micro_step_res", p.dev, <<>>, FALSE),
                       Call("stepper_is_moving", p.dev, <<>>, FALSE) >>,
                    << shell_print("Stepper Info:", ""),
                       shell_print("Device: %s", p.dev),
                       InfoLine(drv.pos_err, "Failed to get actual position: %d",
                                "Actual Position: %d", drv.pos),
                       InfoLine(drv.res_err, "Failed to get micro-step resolution: %d",
                                "Micro-step Resolution: %d", drv.res),
                       InfoLine(drv.mov_err, "Failed to check if the motor is moving: %d",
                                "Is Moving: %s", IF drv.mov THEN "Yes" ELSE "No") >>,
                    NotPolled)

(* ----------------------------- shell thread --------------------------- *)
\* the handler handed the signal to a capability call that the driver accepted
Accepted(r) == r.ret = 0 /\ \E i \in 1..Len(r.calls) : r.calls[i].signal

\* a shell thread that hands the signal over only once it is not raised: the
\* handler waits for the listener to take an earlier completion
Shell_blocking(r) ==
    /\ (\E i \in 1..Len(r.calls) : r.calls[i].signal) => stepper_signal.signaled = 0
    /\ Accepted(r) => pending < MaxPending
    /\ pending' = IF Accepted(r) THEN pending + 1 ELSE pending
    /\ IF r.sp.called
       THEN /\ stepper_signal' = IF r.sp.init THEN k_poll_signal_init(stepper_signal)
                                 ELSE stepper_signal
            /\ poll_thread' = IF r.sp.created THEN poll_thread + 1 ELSE poll_thread
            /\ lpc' = IF r.sp.created THEN "wait" ELSE lpc
            /\ poll_thread_started' = r.sp.started
       ELSE UNCHANGED notifier
    /\ act' = "cmd"
    /\ UNCHANGED history

\* The shell thread runs one handler to its return: the notifier state
\* changes as start_polling() changed it, the driver keeps the signal of an
\* accepted motion, and the handler's result goes back to the operator.
Shell(r) ==
    /\ Accepted(r) => pending < MaxPending
    /\ pending' = IF Accepted(r) THEN pending + 1 ELSE pending
    /\ IF r.sp.called
       THEN /\ stepper_signal' = IF r.sp.init THEN k_poll_signal_init(stepper_signal)
                                 ELSE stepper_signal
            /\ poll_thread' = IF r.sp.created THEN poll_thread + 1 ELSE poll_thread
            /\ lpc' = IF r.sp.created THEN "wait" ELSE lpc
            /\ poll_thread_started' = r.sp.started
       ELSE UNCHANGED notifier
    /\ act' = "cmd"
    /\ UNCHANGED history

\* what the operator typed, what the driver answered and what the handler did
Returned(argv, drv, r) ==
    [argv |-> argv, drv |-> drv, ret |-> r.ret, calls |-> r.calls,
     out |-> r.out, sp |-> r.sp]

\* Each command draws its arguments from the token sets it is given.
Enable(toks) ==
    \E dev \in DevNames, tok \in toks, drv \in DriverRets :
        LET argv == Argv3("enable", dev, tok)
            r    == cmd_stepper_enable(argv, drv)
        IN  /\ Shell(r)
            /\ last' = Returned(argv, drv, r)

Move(toks) ==
    \E dev \in DevNames, tok \in toks, drv \in DriverRets, tid_ok \in BOOLEAN :
        LET argv == Argv3("move", dev, tok)
            r    == cmd_stepper_move(argv, drv, poll_thread_started, tid_ok)
        IN  /\ Shell(r)
            /\ last' = Returned(argv, drv, r)

SetMaxVelocity(toks) ==
    \E dev \in DevNames, tok \in toks, drv \in DriverRets :
        LET argv == Argv3("set_max_velocity", dev, tok)
            r    == cmd_stepper_set_max_velocity(argv, drv)
        IN  /\ Shell(r)
            /\ last' = Returned(argv, drv, r)

SetMicroStepRes(toks) ==
    \E dev \in DevNames, tok \in toks, drv \in DriverRets :
        LET argv == Argv3("set_micro_step_res", dev, tok)
            r    == cmd_stepper_set_micro_step_res(argv, drv)
        IN  /\ Shell(r)
            /\ last' = Returned(argv, drv, r)

SetActualPosition(toks) ==
    \E dev \in DevNames, tok \in toks, drv \in DriverRets :
        LET argv == Argv3("set_actual_position", dev, tok)
            r    == cmd_stepper_set_actual_position(argv, drv)
        IN  /\ Shell(r)
            /\ last' = Returned(argv, drv, r)

SetTargetPosition(toks) ==
    \E dev \in DevNames, tok \in toks, drv \in DriverRets, tid_ok \in BOOLEAN :
        LET argv == Argv3("set_target_position", dev, tok)
            r    == cmd_stepper_set_target_position(argv, drv, poll_thread_started, tid_ok)
        IN  /\ Shell(r)
            /\ last' = Returned(argv, drv, r)

EnableConstantVelocityMode(dirs, toks) ==
    \E dev \in DevNames, dir \in dirs, tok \in toks, drv \in DriverRets :
        LET argv == Argv4("enable_constant_velocity_mode", dev, dir, tok)
            r    == cmd_stepper_enable_constant_velocity_mode(argv, drv)
        IN  /\ Shell(r)
            /\ last' = Returned(argv, drv, r)

Info(answers) ==
    \E dev \in DevNames, drv \in answers :
        LET argv == Argv2("info", dev)
            r    == cmd_stepper_info(argv, drv)
        IN  /\ Shell(r)
            /\ last' = Returned(argv, drv, r)

(* -------------------------------- driver ------------------------------ *)
\* The driver raises the signal of a motion it accepted.  Raising
\* STEPPER_SIGNAL_STEPS_COMPLETED ends that motion.
DriverRaise ==
    \E result \in {STEPPER_SIGNAL_STEPS_COMPLETED, STEPPER_SIGNAL_OTHER} :
        /\ pending > 0
        /\ result = STEPPER_SIGNAL_STEPS_COMPLETED => nRaise < MaxRaises
        /\ stepper_signal' = k_poll_signal_raise(stepper_signal, result)
        /\ pending' = IF result = STEPPER_SIGNAL_STEPS_COMPLETED THEN pending - 1 ELSE pending
        /\ nRaise' = IF result = STEPPER_SIGNAL_STEPS_COMPLETED THEN nRaise + 1 ELSE nRaise
        /\ nHeard' = IF result = STEPPER_SIGNAL_STEPS_COMPLETED /\ lpc # "none"
                     THEN nHeard + 1 ELSE nHeard
        /\ periods' = IF stepper_signal.signaled = 0 /\ lpc # "none"
                      THEN periods + 1 ELSE periods
        /\ act' = "raise"
        /\ UNCHANGED <<poll_thread_started, poll_thread, lpc, nPrint, last>>

(* ------------------------------ poll thread --------------------------- *)
\* a k_poll() that returns at once, whether or not the signal is raised
PollWake_eager ==
    /\ lpc = "wait"
    /\ lpc' = "check"
    /\ act' = "wake"
    /\ UNCHANGED <<poll_thread_started, stepper_signal, poll_thread, pending, last>>
    /\ UNCHANGED history

\* k_poll(&stepper_poll_event, 1, K_FOREVER) returns once the signal is raised
PollWake ==
    /\ lpc = "wait"
    /\ stepper_signal.signaled = 1
    /\ lpc' = "check"
    /\ act' = "wake"
    /\ UNCHANGED <<poll_thread_started, stepper_signal, poll_thread, pending, last>>
    /\ UNCHANGED history

\* a poll thread that returns from its entry function when the result is not
\* STEPPER_SIGNAL_STEPS_COMPLETED
PollCheck_exit ==
    /\ lpc = "check"
    /\ lpc' = IF stepper_signal.result = STEPPER_SIGNAL_STEPS_COMPLETED
              THEN "print" ELSE "none"
    /\ poll_thread' = IF stepper_signal.result = STEPPER_SIGNAL_STEPS_COMPLETED
                      THEN poll_thread ELSE poll_thread - 1
    /\ act' = "check"
    /\ UNCHANGED <<poll_thread_started, stepper_signal, pending, last>>
    /\ UNCHANGED history

\* a poll thread that does not look at the result: every wake-up is printed
\* and reset
PollCheck_any ==
    /\ lpc = "check"
    /\ lpc' = "print"
    /\ act' = "check"
    /\ UNCHANGED <<poll_thread_started, stepper_signal, poll_thread, pending, last>>
    /\ UNCHANGED history

\* if (stepper_poll_event.signal->result == STEPPER_SIGNAL_STEPS_COMPLETED)
PollCheck ==
    /\ lpc = "check"
    /\ lpc' = IF stepper_signal.result = STEPPER_SIGNAL_STEPS_COMPLETED
              THEN "print" ELSE "wait"
    /\ act' = "check"
    /\ UNCHANGED <<poll_thread_started, stepper_signal, poll_thread, pending, last>>
    /\ UNCHANGED history

\* the poll thread without its k_poll_signal_reset(): back to k_poll() right
\* after the notice
PollPrint_noreset ==
    /\ lpc = "print"
    /\ nPrint' = nPrint + 1
    /\ lpc' = "wait"
    /\ act' = "print"
    /\ UNCHANGED <<poll_thread_started, stepper_signal, poll_thread, pending, last,
                   nRaise, nHeard, periods>>

\* shell_print(sh, "Stepper: All steps completed")
PollPrint ==
    /\ lpc = "print"
    /\ nPrint' = nPrint + 1
    /\ lpc' = "reset"
    /\ act' = "print"
    /\ UNCHANGED <<poll_thread_started, stepper_signal, poll_thread, pending, last,
                   nRaise, nHeard, periods>>

\* k_poll_signal_reset(&stepper_signal), then back to k_poll()
PollReset ==
    /\ lpc = "reset"
    /\ stepper_signal' = k_poll_signal_reset(stepper_signal)
    /\ lpc' = "wait"
    /\ act' = "reset"
    /\ UNCHANGED <<poll_thread_started, poll_thread, pending, last>>
    /\ UNCHANGED history

stepper_poll_thread == PollWake \/ PollCheck \/ PollPrint \/ PollReset

(* ---------------------------- specification --------------------------- *)
NoCommand == [argv |-> Argv2("none", NoDevice), drv |-> 0, ret |-> 0, calls |-> <<>>,
              out |-> <<>>, sp |-> NotPolled]

Init ==
    /\ poll_thread_started = FALSE
    /\ stepper_signal = [signaled |-> 0, result |-> 0, inited |-> FALSE]
    /\ poll_thread = 0
    /\ lpc = "none"
    /\ pending = 0
    /\ nRaise = 0
    /\ nHeard = 0
    /\ nPrint = 0
    /\ periods = 0
    /\ last = NoCommand
    /\ act = "init"

\* the answers of a driver whose position query fails or whose moving
\* query fails
PlainAnswers ==
    {q \in QueryAnswers : q.pos = 7 /\ q.res = 2 /\ q.mov /\ q.res_err = 0
                          /\ q.pos_err # q.mov_err}

\* The whole system: the operator's commands with plain numeric arguments,
\* the driver and the poll thread.
Next ==
    \/ Enable(EnableTokens)
    \/ Move(PlainTokens)
    \/ SetMaxVelocity(PlainTokens)
    \/ SetMicroStepRes(PlainTokens)
    \/ SetActualPosition(PlainTokens)
    \/ SetTargetPosition(PlainTokens)
    \/ EnableConstantVelocityMode(PlainDirTokens, PlainTokens)
    \/ Info(PlainAnswers)
    \/ DriverRaise
    \/ PollWake
    \/ PollCheck
    \/ PollPrint
    \/ PollReset

Spec == Init /\ [][Next]_vars

\* The shell thread alone, with every argument token and every answer of the
\* driver to a capability call.
NextShell ==
    \/ Enable(EnableTokens)
    \/ Move(Tokens)
    \/ SetMaxVelocity(Tokens)
    \/ SetMicroStepRes(Tokens)
    \/ SetActualPosition(Tokens)
    \/ SetTargetPosition(Tokens)
    \/ EnableConstantVelocityMode(DirTokens, Tokens)
    \/ Info(QueryAnswers)

SpecShell == Init /\ [][NextShell]_vars

\* The asynchronous side alone: the two asynchronous commands, the driver
\* and the poll thread.
NextAsync ==
    \/ Move(PlainTokens)
    \/ SetTargetPosition(PlainTokens)
    \/ DriverRaise
    \/ PollWake
    \/ PollCheck
    \/ PollPrint
    \/ PollReset

SpecAsync == Init /\ [][NextAsync]_vars

\* The whole system with the poll thread scheduled fairly: a step of
\* stepper_poll_thread that stays possible is eventually taken.  Nothing is
\* assumed of the operator or the driver.
SpecFair == Spec /\ WF_vars(stepper_poll_thread)

(* ------------------------------- properties --------------------------- *)
AsyncCmds == {"move", "set_target_position"}
NumericCmds == {"move", "set_max_velocity", "set_micro_step_res", "set_actual_position",
                "set_target_position", "enable_constant_velocity_mode"}

\* the last command was name
Ran(name) == last.argv[0] = name
\* the last command named a registered device
OnRegistered == last.argv[0] # "none" /\ last.argv[arg_idx_dev] \in Registered
\* the last command got as far as the driver
Reached == Len(last.calls) > 0
\* the last command handed the completion signal to the driver
HandedSignal(c) == \E i \in 1..Len(c.calls) : c.calls[i].signal

\* C1 as stated: after an asynchronous command on a registered device exactly
\* one listener thread has been created.
C1_ExactlyOneAfterAsync ==
    (last.argv[0] \in AsyncCmds /\ OnRegistered) => poll_thread = 1

\* C1, amended: at most one listener thread is ever created, it exists exactly
\* when poll_thread_started is set, and after an asynchronous command on a
\* registered device exactly one exists unless k_thread_create() failed in
\* that command, in which case none does.
C1_AtMostOneListener ==
    /\ poll_thread <= 1
    /\ poll_thread_started <=> poll_thread = 1
    /\ (last.argv[0] \in AsyncCmds /\ OnRegistered)
          => poll_thread = (IF last.sp.ret = -ENOEXEC THEN 0 ELSE 1)

\* a second asynchronous command found the thread running and created none
C1_Witness ==
    /\ last.argv[0] \in AsyncCmds
    /\ last.sp.called
    /\ ~last.sp.init
    /\ poll_thread = 1

\* C2 as stated: once the listener is back in k_poll() on an idle signal,
\* every completion the driver raised while the listener existed has been
\* printed, one notice for each.
C2_EveryFiringReported ==
    (lpc = "wait" /\ stepper_signal.signaled = 0) => nPrint = nHeard

\* C2, amended: each period during which the signal is raised under a running
\* listener gets exactly one notice, printed before the listener returns the
\* signal to idle; a completion raised while the signal is already raised is
\* folded into the notice of that period.
C2_OneNoticePerRaisedPeriod ==
    lpc # "none" =>
        nPrint = periods - (IF stepper_signal.signaled = 1 /\ lpc # "reset" THEN 1 ELSE 0)

\* two completions, each reported, and the signal idle again
C2_Witness ==
    /\ lpc = "wait"
    /\ stepper_signal.signaled = 0
    /\ nHeard = 2
    /\ nPrint = 2

\* C3 as stated: a command naming an unregistered device returns -ENODEV and
\* issues no capability call.
C3_UnregisteredIsENODEV ==
    (last.argv[0] # "none" /\ ~OnRegistered) => (last.ret = -ENODEV /\ ~Reached)

\* C3, amended: a command naming an unregistered device issues no capability
\* call and returns -ENODEV, except enable with a token other than "on" and
\* "off", which returns -EINVAL before it looks the device up.
C3_UnregisteredNoCall ==
    (last.argv[0] # "none" /\ ~OnRegistered) =>
        /\ ~Reached
        /\ last.ret = (IF Ran("enable") /\ last.argv[arg_idx_param] \notin {On, Off}
                       THEN -EINVAL ELSE -ENODEV)

\* info on the unregistered device was refused
C3_Witness ==
    /\ Ran("info")
    /\ last.argv[arg_idx_dev] = "ghost"
    /\ last.ret = -ENODEV
    /\ Len(last.out) = 1

\* a token that is a number under none of strtol, strtoul and atoi: neither
\* digits alone after an optional sign, nor 0x and hexadecimal digits
Malformed(tok) ==
    LET u == Unsigned(tok)
    IN  /\ ~(u # <<>> /\ \A i \in 1..Len(u) : u[i] \in {"0", "1"})
        /\ ~(Len(u) >= 3 /\ u[1] = "0" /\ u[2] = "x"
             /\ \A i \in 3..Len(u) : u[i] \in {"0", "1"})

\* the last command had a malformed numeric argument
MalformedArgs ==
    /\ last.argv[0] \in NumericCmds
    /\ \/ Malformed(last.argv[arg_idx_param])
       \/ Ran("enable_constant_velocity_mode") /\ Malformed(last.argv[arg_idx_value])

\* C4 as stated: a numeric command with a malformed argument, on a registered
\* device, returns -EINVAL and makes no hardware call.
C4_MalformedIsEINVAL ==
    (MalformedArgs /\ OnRegistered) => (last.ret = -EINVAL /\ ~Reached)

\* C5 as stated: an asynchronous command in which the creation of the
\* listener thread failed returns that failure to the operator.
C5_CreateFailureReturned ==
    (last.sp.called /\ last.sp.ret = -ENOEXEC) => last.ret = -ENOEXEC

\* no capability is called twice by the last command
NoRetry ==
    \A i, j \in 1..Len(last.calls) : i # j => last.calls[i].op # last.calls[j].op

\* C6 as stated: every non-zero code a capability call returned is the
\* command's result, and the command called that capability once.
C6_CodePassedThrough ==
    Reached =>
        /\ NoRetry
        /\ IF Ran("info")
           THEN \A e \in {last.drv.pos_err, last.drv.res_err, last.drv.mov_err} :
                    e # 0 => last.ret = e
           ELSE last.drv # 0 => last.ret = last.drv

\* C6, amended: each of the seven commands other than info calls its
\* capability once and returns a non-zero code of it unchanged; info calls
\* each of its three queries once and returns 0 whatever they return.
C6_CodePassedThroughButInfo ==
    Reached =>
        /\ NoRetry
        /\ IF Ran("info")
           THEN Len(last.calls) = 3 /\ last.ret = 0
           ELSE Len(last.calls) = 1 /\ (last.drv # 0 => last.ret = last.drv)

\* set_max_velocity handed back the driver's -EIO
C6_Witness ==
    /\ Ran("set_max_velocity")
    /\ Reached
    /\ last.drv = -EIO
    /\ last.ret = -EIO

\* the line info printed for a query: its value, or a warning with the code
QueryLine(line, err, value) ==
    IF err < 0
    THEN line.lvl = "warn" /\ line.arg = err
    ELSE line.lvl = "print" /\ line.arg = value

\* C7: info on a registered device calls the three queries in every
\* execution, prints the value of each query that succeeds and a warning for
\* each that fails, and nothing else but its two header lines.
C7_InfoQueriesIsolated ==
    (Ran("info") /\ OnRegistered) =>
        /\ Len(last.calls) = 3
        /\ last.calls[1].op = "stepper_get_actual_position"
        /\ last.calls[2].op = "stepper_get_micro_step_res"
        /\ last.calls[3].op = "stepper_is_moving"
        /\ Len(last.out) = 5
        /\ QueryLine(last.out[3], last.drv.pos_err, last.drv.pos)
        /\ QueryLine(last.out[4], last.drv.res_err, last.drv.res)
        /\ QueryLine(last.out[5], last.drv.mov_err, IF last.drv.mov THEN "Yes" ELSE "No")

\* is_moving failed, get_actual_position succeeded and its value was printed
C7_Witness ==
    /\ Ran("info")
    /\ OnRegistered
    /\ last.drv.mov_err < 0
    /\ last.drv.pos_err = 0
    /\ last.out[3].lvl = "print"
    /\ last.out[3].arg = last.drv.pos
    /\ last.out[5].lvl = "warn"

\* C8: enable with a second argument other than "on" and "off" returns
\* -EINVAL and calls no capability, whether or not the device is registered.
C8_EnableTokenChecked ==
    (Ran("enable") /\ last.argv[arg_idx_param] \notin {On, Off}) =>
        (last.ret = -EINVAL /\ ~Reached)

\* enable of the registered device with a bad token was refused
C8_Witness ==
    /\ Ran("enable")
    /\ OnRegistered
    /\ last.argv[arg_idx_param] = <<"O", "N">>
    /\ last.ret = -EINVAL

\* C9 as stated: the dispatcher hands the signal to an asynchronous
\* capability call only when the signal is idle, that is neither raised nor
\* still held by the driver for an earlier motion.
C9_ArmedOnlyWhenIdle ==
    [][(act' = "cmd" /\ HandedSignal(last'))
          => (stepper_signal'.signaled = 0 /\ pending = 0)]_vars

\* C9, amended: the raised flag of the signal moves from idle to fired only
\* by a raise of the driver, and from fired to idle only by the listener's
\* reset after its notice or by start_polling() initialising the signal while
\* no listener has been started; a command run while the listener is started
\* leaves the signal as it is, and hands it to the driver in whatever state
\* it is in.
C9_RaisedFlagMoves ==
    [][/\ (stepper_signal.signaled = 0 /\ stepper_signal'.signaled = 1)
             => act' = "raise"
       /\ (stepper_signal.signaled = 1 /\ stepper_signal'.signaled = 0)
             => \/ act' = "reset" /\ lpc = "reset"
                \/ act' = "cmd" /\ ~poll_thread_started /\ last'.sp.init
       /\ (act' = "cmd" /\ poll_thread_started)
             => stepper_signal' = stepper_signal]_vars

\* the signal was handed to the driver while raised and not yet reset
C9_Witness ==
    /\ act = "cmd"
    /\ HandedSignal(last)
    /\ poll_thread_started
    /\ stepper_signal.signaled = 1

\* C10: an asynchronous command naming an unregistered device returns
\* -ENODEV and leaves the signal, poll_thread_started and the listener thread
\* as they were.
C10_UnregisteredAsyncFrame ==
    [][(act' = "cmd" /\ last'.argv[0] \in AsyncCmds
          /\ last'.argv[arg_idx_dev] \notin Registered)
          => /\ last'.ret = -ENODEV
             /\ UNCHANGED <<stepper_signal, poll_thread_started, poll_thread, lpc>>]_vars

\* set_target_position of the unregistered device, refused while the signal
\* is raised and the listener has not yet taken it
C10_Witness ==
    /\ act = "cmd"
    /\ Ran("set_target_position")
    /\ last.argv[arg_idx_dev] = "ghost"
    /\ last.ret = -ENODEV
    /\ stepper_signal.signaled = 1
    /\ lpc = "wait"

\* an asynchronous command runs to its return, with the driver called with
\* the signal and answering code
MoveReturns(code) ==
    Move(PlainTokens) /\ HandedSignal(last') /\ last'.ret = code
SetTargetPositionReturns(code) ==
    SetTargetPosition(PlainTokens) /\ HandedSignal(last') /\ last'.ret = code

\* C11: in every state, whatever the signal is (idle, armed, fired) and
\* whether or not an earlier motion has completed, move and
\* set_target_position on the registered device can run to their return with
\* the driver's answer: the handler has no step that waits on the signal.
\* (A motion the driver accepts needs pending below MaxPending.)
C11_CommandNeverWaits ==
    /\ ENABLED MoveReturns(-EIO)
    /\ ENABLED SetTargetPositionReturns(-EIO)
    /\ pending < MaxPending =>
          (ENABLED MoveReturns(0) /\ ENABLED SetTargetPositionReturns(0))

\* move returned with the driver's acceptance while the signal of an earlier
\* motion is raised and the listener has not taken it yet
C11_Witness ==
    /\ act = "cmd"
    /\ Ran("move")
    /\ HandedSignal(last)
    /\ last.ret = 0
    /\ stepper_signal.signaled = 1
    /\ lpc = "wait"
    /\ pending = 2

\* the driver has just marked completed a motion that a move on a registered
\* device started with return code 0
MoveCompleted ==
    /\ act = "raise"
    /\ stepper_signal.signaled = 1
    /\ stepper_signal.result = STEPPER_SIGNAL_STEPS_COMPLETED
    /\ Ran("move") /\ OnRegistered /\ HandedSignal(last) /\ last.ret = 0

\* C12: with the poll thread scheduled fairly, once the driver marks
\* completed the motion of a successful move, the poll thread eventually
\* prints the notice and the signal eventually is not raised any more.
C12_CompletionEventuallyNoticed ==
    /\ MoveCompleted ~> (act = "print")
    /\ MoveCompleted ~> (stepper_signal.signaled = 0)

\* C13: whenever an asynchronous command has just issued its capability
\* call with the signal, a poll thread exists.
C13_ListenerRunsWhenHanded ==
    (act = "cmd" /\ HandedSignal(last)) => (poll_thread >= 1 /\ lpc # "none")

\* the notifier as it is before any asynchronous command: no poll thread,
\* poll_thread_started false, the signal never initialised
Uninitialized ==
    /\ ~poll_thread_started
    /\ poll_thread = 0
    /\ lpc = "none"
    /\ ~stepper_signal.inited

\* C14: a synchronous command changes nothing of the notifier, never calls
\* start_polling() and never hands the signal to the driver, so the notifier
\* is still Uninitialized after a synchronous command that found it so.
C14_SyncCommandsLeaveNotifier ==
    [][(act' = "cmd" /\ last'.argv[0] \notin AsyncCmds)
          => /\ UNCHANGED notifier
             /\ pending' = pending
             /\ ~last'.sp.called
             /\ ~HandedSignal(last')
             /\ Uninitialized => Uninitialized']_vars

C14_Witness ==
    /\ act = "cmd" /\ Ran("set_actual_position") /\ OnRegistered /\ Reached
    /\ last.ret = 0
    /\ Uninitialized

\* the positions of the while (1) loop of stepper_poll_thread
LoopPositions == {"wait", "check", "print", "reset"}

\* C15: once poll_thread_started is set a poll thread exists, and a poll
\* thread that exists is still there after every step, at one of the
\* positions of its loop: in k_poll() or handling a wake-up.
C15_ListenerNeverExits ==
    /\ [](poll_thread_started => (poll_thread >= 1 /\ lpc \in LoopPositions))
    /\ [][lpc # "none" => (lpc' \in LoopPositions /\ poll_thread' >= poll_thread)]_vars

C15_Witness ==
    /\ poll_thread_started /\ poll_thread = 1
    /\ act = "check" /\ lpc = "wait"
    /\ stepper_signal.result = STEPPER_SIGNAL_OTHER
    /\ nPrint = 1

\* the command just run called start_polling() and k_thread_create() failed
CreateFailed(c) == c.sp.called /\ c.sp.ret = -ENOEXEC

\* C16: an asynchronous command whose thread creation fails still issues its
\* capability call with the signal and returns the driver's code, and leaves
\* poll_thread_started false; an asynchronous command on a registered device
\* that finds poll_thread_started false initialises the signal and attempts
\* the creation, whatever happened before.
C16_CreateFailureIgnored ==
    [][(act' = "cmd" /\ last'.argv[0] \in AsyncCmds)
          => /\ CreateFailed(last')
                  => /\ HandedSignal(last')
                     /\ last'.ret = last'.drv
                     /\ ~poll_thread_started'
                     /\ poll_thread' = poll_thread
             /\ (~poll_thread_started /\ last'.argv[arg_idx_dev] \in Registered)
                  => /\ last'.sp.called /\ last'.sp.init
                     /\ stepper_signal'.inited /\ stepper_signal'.signaled = 0
                     /\ (last'.sp.created \/ CreateFailed(last'))]_vars

\* the creation succeeded on a retry: a motion accepted without a poll
\* thread completed unheard before this command created the thread
C16_Witness ==
    /\ act = "cmd" /\ last.argv[0] \in AsyncCmds
    /\ last.sp.created /\ poll_thread = 1
    /\ nRaise = 1 /\ nHeard = 0

\* the signal is raised with a result other than STEPPER_SIGNAL_STEPS_COMPLETED
RaisedOther ==
    /\ stepper_signal.signaled = 1
    /\ stepper_signal.result # STEPPER_SIGNAL_STEPS_COMPLETED

\* C17, as stated: the poll thread prints and resets only while the result is
\* STEPPER_SIGNAL_STEPS_COMPLETED, and with a poll thread running a signal
\* raised with another result is not printed and stays raised until the
\* result changes.
C17_OtherResultNeverCleared ==
    [][/\ act' \in {"print", "reset"}
            => stepper_signal.result = STEPPER_SIGNAL_STEPS_COMPLETED
       /\ (RaisedOther /\ lpc # "none")
            => (nPrint' = nPrint /\ stepper_signal'.signaled = 1)]_vars

\* C17, amended: the result decides at the test of line 261 only.  The poll
\* thread goes on to print and reset exactly when the test reads
\* STEPPER_SIGNAL_STEPS_COMPLETED, and it prints and resets after no other
\* step; a test that reads another result prints nothing, leaves the signal
\* as it is and goes back to k_poll(); and while the poll thread is in
\* k_poll() or at the test, a signal raised with another result is not
\* printed and stays raised, only the driver changing it.
C17_ResultDecidesAtTest ==
    [][/\ act' = "check"
            => /\ lpc' = "print" <=> stepper_signal.result = STEPPER_SIGNAL_STEPS_COMPLETED
               /\ lpc' = "wait" <=> stepper_signal.result # STEPPER_SIGNAL_STEPS_COMPLETED
               /\ nPrint' = nPrint /\ stepper_signal' = stepper_signal
       /\ (lpc' = "print" /\ lpc # "print") => act' = "check"
       /\ nPrint' # nPrint => (lpc = "print" /\ lpc' = "reset" /\ nPrint' = nPrint + 1)
       /\ (lpc' = "reset" /\ lpc # "reset") => act' = "print"
       /\ act' = "reset" => lpc = "reset"
       /\ (RaisedOther /\ lpc \in {"wait", "check"})
            => /\ nPrint' = nPrint
               /\ stepper_signal'.signaled = 1
               /\ stepper_signal' # stepper_signal => act' = "raise"]_vars

\* the poll thread woke on a result other than completed, printed nothing
\* and is back in k_poll() with the signal still raised
C17_Witness ==
    /\ act = "check" /\ lpc = "wait"
    /\ RaisedOther
    /\ nPrint = 0 /\ nRaise = 0

\* C18: the poll thread has printed at most as many notices as the driver
\* has raised the signal with STEPPER_SIGNAL_STEPS_COMPLETED.
C18_NoticesBoundedByCompletions == nPrint <= nRaise

\* every completion so far has been printed, the second one just now
C18_Witness ==
    /\ act = "print"
    /\ nPrint = 2 /\ nRaise = 2

\* C19: the signal has been through k_poll_signal_init() in every state in
\* which the driver holds its handle or a poll thread exists, a command that
\* hands it over finds it initialised or initialises it itself, and no
\* command initialises it while a poll thread exists.
C19_InitialisedOnceBeforeUse ==
    /\ []((HandedSignal(last) \/ pending > 0 \/ lpc # "none") => stepper_signal.inited)
    /\ [][act' = "cmd"
            => /\ HandedSignal(last') => (stepper_signal.inited \/ last'.sp.init)
               /\ last'.sp.created => last'.sp.init
               /\ last'.sp.init => (lpc = "none" /\ poll_thread = 0)]_vars

\* an asynchronous command with the poll thread running and the signal still
\* raised: start_polling() is called and leaves the signal alone
C19_Witness ==
    /\ act = "cmd" /\ HandedSignal(last)
    /\ last.sp.called /\ ~last.sp.init
    /\ lpc # "none"
    /\ stepper_signal.inited /\ stepper_signal.signaled = 1

============================================================================
